---- MODULE Spec2Model ----
(***************************************************************************)
(* Model of the ChaosMaker configuration store (server/services/           *)
(* configStore.ts) and of the HTTP routes that drive it (server/routes/    *)
(* redirect.ts), of the instance and token routes over the OSC client, and *)
(* of the configuration editor of the browser.                             *)
(*                                                                         *)
(* Representation.  A JavaScript string is a sequence of characters (each  *)
(* a one-character TLA+ string); opaque literals such as endpoint paths    *)
(* are single multi-character tokens.  A JSON object is a function whose   *)
(* DOMAIN is the set of keys present in it; a property that holds the      *)
(* value undefined holds the token sequence Undefined.                     *)
(***************************************************************************)
EXTENDS Integers, Sequences, FiniteSets, TLC

VARIABLES
    configs,        \* ConfigStore.configs: the Map, as its entries in insertion order
    file,           \* the contents of chaos-configs.json
    response,       \* the last HTTP exchange: the request and the answer to it
    failures,       \* number of failed writes so far
    hist,           \* history: accepted request bodies, most recently saved first
    histDisk,       \* history: the value of hist at the last successful write
    lastRedirect,   \* history: the 302 answered last, while only saves have been accepted since
    env,            \* process.env: the variables that are set, with their values
    osc,            \* the OSCClient singleton: its accessToken
    ui,             \* the browser: App.selectedInstance and the state of the edit form
    peer            \* a second server process on the same chaos-configs.json: its Map

vars == <<configs, file, response, failures, hist, histDisk, lastRedirect, env, osc, ui, peer>>

\* what the routes of the configuration store never touch
others == <<env, osc, ui, peer>>

----------------------------------------------------------------------------
\* Bounds of the model

MaxConfigs == 2
MaxWriteFailures == 1
\* descriptors in the edit form, all four lists together
MaxDescriptors == 1

----------------------------------------------------------------------------
\* JavaScript values

Undefined == <<"undefined">>
Null == [null |-> TRUE]
EmptyMap == <<>>

Hls == <<"h", "l", "s">>
Dash == <<"d", "a", "s", "h">>
Smooth == <<"s", "m", "o", "o", "t", "h">>
Live == <<"l", "i", "v", "e">>
Vod == <<"v", "o", "d">>
M3u8Ext == <<".", "m", "3", "u", "8">>
MpdExt == <<".", "m", "p", "d">>
XyzExt == <<".", "x", "y", "z">>

StringFields == {"name", "instanceUrl", "sourceUrl", "protocol", "streamType", "description"}
ListFields == {"delays", "statusCodes", "timeouts", "throttles"}

\* obj.k for a string-valued property: undefined when the key is absent
Field(obj, k) == IF k \in DOMAIN obj THEN obj[k] ELSE Undefined

\* JavaScript truthiness of a string-or-undefined value (as in !name)
Truthy(v) == v # Undefined /\ v # <<>>

Restrict(f, S) == [k \in S |-> f[k]]

Reverse(s) == [i \in 1..Len(s) |-> s[Len(s) + 1 - i]]

Num(n) == [t |-> "number", v |-> n]
Str(s) == [t |-> "string", v |-> s]

----------------------------------------------------------------------------
\* The Map<string, ChaosProxyConfig>: a sequence of entries [key, value]
\* in insertion order

MapHas(m, key) == \E i \in 1..Len(m) : m[i].key = key

MapIndex(m, key) == CHOOSE i \in 1..Len(m) : m[i].key = key

MapGet(m, key) == m[MapIndex(m, key)].value

MapDelete(m, key) == SelectSeq(m, LAMBDA e : e.key # key)

\* Map.set: an existing key keeps its position, a new key goes last
MapSet(m, key, value) ==
    IF MapHas(m, key)
    THEN [m EXCEPT ![MapIndex(m, key)] = [key |-> key, value |-> value]]
    ELSE Append(m, [key |-> key, value |-> value])

MapValues(m) == [i \in 1..Len(m) |-> m[i].value]

----------------------------------------------------------------------------
\* ConfigStore

\* faulty variant: the key leaves the protocol out
getKeyNameOnly(name, protocol) == name

getKey(name, protocol) == name \o <<":">> \o protocol

\* JSON.stringify of one record: properties holding undefined are omitted
Stringify(config) ==
    Restrict(config, {k \in DOMAIN config : ~(k \in StringFields /\ config[k] = Undefined)})

\* the text saveToFile hands to writeFileSync, as the array JSON.parse reads back
FileText(m) ==
    LET sortedConfigs == Reverse(MapValues(m))
    IN  [kind |-> "array", items |-> [i \in 1..Len(sortedConfigs) |-> Stringify(sortedConfigs[i])]]

\* faulty variant: the write is never made
saveToFileNoWrite(m, f, ok) == f

\* faulty variant: a write that fails leaves the file destroyed
saveToFileClobber(m, f, ok) == IF ok THEN FileText(m) ELSE [kind |-> "unparseable"]

\* faulty variant: the records of the file that the collection lacks are kept
saveToFileMerge(m, f, ok) ==
    IF ~ok THEN f
    ELSE IF f.kind # "array" THEN FileText(m)
    ELSE [kind |-> "array",
          items |-> FileText(m).items \o
                    SelectSeq(f.items, LAMBDA c : \A i \in 1..Len(m) : m[i].value # c)]

\* saveToFile: a write that throws is caught and logged
saveToFile(m, f, ok) == IF ok THEN FileText(m) ELSE f

\* the elements configs.forEach visits before it throws: all of them, or
\* those before the first element that is not an object
LoadableItems(items) ==
    LET bad == {i \in 1..Len(items) : items[i] = Null}
        stop == IF bad = {} THEN Len(items) + 1
                ELSE CHOOSE i \in bad : \A j \in bad : i <= j
    IN  SubSeq(items, 1, stop - 1)

RECURSIVE LoadAll(_, _)
LoadAll(m, items) ==
    IF items = <<>> THEN m
    ELSE LET config == Head(items)
             key == getKey(Field(config, "name"), Field(config, "protocol"))
         IN  LoadAll(MapSet(m, key, config), Tail(items))

loadFromFile(f) ==
    IF f.kind = "array" THEN LoadAll(EmptyMap, LoadableItems(f.items))
    ELSE EmptyMap

\* faulty variant: an existing key keeps its first record
saveConfigKeepFirst(m, config) ==
    LET key == getKey(config.name, config.protocol)
    IN  IF MapHas(m, key) THEN m ELSE MapSet(m, key, config)

\* faulty variant: an existing key is overwritten where it stands
saveConfigInPlace(m, config) == MapSet(m, getKey(config.name, config.protocol), config)

saveConfig(m, config) ==
    LET key == getKey(config.name, config.protocol)
        removed == IF MapHas(m, key) THEN MapDelete(m, key) ELSE m
    IN  MapSet(removed, key, config)

\* faulty variant: the record at the head of the collection is returned
getConfigFirst(m, name, protocol) == IF m = <<>> THEN Null ELSE m[1].value

\* this.configs.get(key) || null
getConfig(m, name, protocol) ==
    LET key == getKey(name, protocol)
    IN  IF MapHas(m, key) THEN MapGet(m, key) ELSE Null

listConfigs(m) == Reverse(MapValues(m))

\* faulty variant: every record of that name is removed
deleteConfigByName(m, name, protocol) == SelectSeq(m, LAMBDA e : e.value.name # name)

deleteConfig(m, name, protocol) == MapDelete(m, getKey(name, protocol))

hasConfig(m, name, protocol) == MapHas(m, getKey(name, protocol))

----------------------------------------------------------------------------
\* The query encoder

RECURSIVE Join(_, _)
Join(parts, sep) ==
    IF parts = <<>> THEN <<>>
    ELSE IF Len(parts) = 1 THEN parts[1]
    ELSE parts[1] \o sep \o Join(Tail(parts), sep)

\* faulty variant: '*' is quoted like any other string
EntryTextQuoted(key, value) ==
    CASE value.t = "number" -> <<key, ":", ToString(value.v)>>
      [] value.t = "string" -> <<key, ":", "\"">> \o value.v \o <<"\"">>
      [] value.t = "boolean" -> <<key, ":", IF value.v THEN "true" ELSE "false">>
      [] OTHER -> <<key, ":", "null">>

\* one `key:value` entry of toUnquotedJson
EntryText(key, value) ==
    CASE value.t = "number" -> <<key, ":", ToString(value.v)>>
      [] value.t = "string" ->
            IF value.v = <<"*">> THEN <<key, ":", "*">>
            ELSE <<key, ":", "\"">> \o value.v \o <<"\"">>
      [] value.t = "boolean" -> <<key, ":", IF value.v THEN "true" ELSE "false">>
      [] OTHER -> <<key, ":", "null">>

\* toUnquotedJson of an object, given as its entries [key, value] in insertion order
ObjectText(obj) ==
    <<"{">> \o Join([i \in 1..Len(obj) |-> EntryText(obj[i].key, obj[i].value)], <<",">>) \o <<"}">>

\* toUnquotedJson of an array of objects
toUnquotedJson(objs) ==
    <<"[">> \o Join([i \in 1..Len(objs) |-> ObjectText(objs[i])], <<",">>) \o <<"]">>

\* faulty variant: every listed field is copied, null where the descriptor
\* does not give it
PickFieldsAll(d, keys) ==
    [i \in 1..Len(keys) |->
        [key |-> keys[i], value |-> IF keys[i] \in DOMAIN d THEN d[keys[i]] ELSE [t |-> "null"]]]

\* faulty variant: the other fields of the descriptor are copied as well
PickFieldsEvery(d, keys) ==
    LET present == SelectSeq(keys \o <<"l", "ms", "code", "rate", "extra">>,
                             LAMBDA k : k \in DOMAIN d)
    IN  [i \in 1..Len(present) |-> [key |-> present[i], value |-> d[present[i]]]]

\* the object generateProxyUrl builds from a descriptor: the listed fields
\* that are not undefined, in the listed order
PickFields(d, keys) ==
    LET present == SelectSeq(keys, LAMBDA k : k \in DOMAIN d)
    IN  [i \in 1..Len(present) |-> [key |-> present[i], value |-> d[present[i]]]]

DelayKeys == <<"i", "sq", "rsq", "br", "l", "ms">>
StatusCodeKeys == <<"i", "sq", "rsq", "br", "code">>
TimeoutKeys == <<"i", "sq", "rsq", "br">>
ThrottleKeys == <<"i", "sq", "rsq", "br", "rate">>

\* faulty variant: an empty list is rendered as a parameter too
QueryPartAlways(param, list, keys) ==
    << <<param, "=">> \o toUnquotedJson([i \in 1..Len(list) |-> PickFields(list[i], keys)]) >>

\* one query parameter, or none for an empty list
QueryPart(param, list, keys) ==
    IF Len(list) > 0
    THEN << <<param, "=">> \o toUnquotedJson([i \in 1..Len(list) |-> PickFields(list[i], keys)]) >>
    ELSE <<>>

\* generateProxyUrl once the record is found and has a source URL
EncodeConfig(config) ==
    LET endpoint == IF config.protocol = Hls
                    THEN "/api/v2/manifests/hls/proxy-master.m3u8"
                    ELSE "/api/v2/manifests/dash/proxy-master.mpd"
        queryParts == << <<"url=">> \o Field(config, "sourceUrl") >>
                      \o QueryPart("delay", config.delays, DelayKeys)
                      \o QueryPart("statusCode", config.statusCodes, StatusCodeKeys)
                      \o QueryPart("timeout", config.timeouts, TimeoutKeys)
                      \o QueryPart("throttle", config.throttles, ThrottleKeys)
    IN  config.instanceUrl \o <<endpoint, "?">> \o Join(queryParts, <<"&">>)

\* faulty variant: a record without source URL is encoded all the same
generateProxyUrlNoSourceCheck(m, name, protocol) ==
    LET config == getConfig(m, name, protocol)
    IN  IF config = Null THEN Null ELSE EncodeConfig(config)

generateProxyUrl(m, name, protocol) ==
    LET config == getConfig(m, name, protocol)
    IN  IF config = Null THEN Null
        ELSE IF ~Truthy(Field(config, "sourceUrl")) THEN Null
        ELSE EncodeConfig(config)

\* faulty variant: the port is always appended
initializeBaseUrlAlwaysPort(hostname, port, protocol) ==
    <<protocol, "://", hostname, ":", port>>

\* initializeBaseUrl: the environment values are strings
initializeBaseUrl(hostname, port, protocol) ==
    IF (protocol = "http" /\ port # "80") \/ (protocol = "https" /\ port # "443")
    THEN <<protocol, "://", hostname, ":", port>>
    ELSE <<protocol, "://", hostname>>

\* no environment variable is set
NoEnv == <<>>

\* process.env.k || fallback: an unset or empty variable gives the fallback
EnvOr(e, k, fallback) == IF k \in DOMAIN e /\ e[k] # "" THEN e[k] ELSE fallback

\* this.baseUrl, computed by the constructor from process.env
baseUrl ==
    initializeBaseUrl(EnvOr(env, "PUBLIC_HOSTNAME", "localhost"),
                      EnvOr(env, "PUBLIC_PORT", EnvOr(env, "PORT", "3001")),
                      EnvOr(env, "PUBLIC_PROTOCOL", "http"))

\* the OSCClient as constructed: accessToken = null; tokenSet is history: a
\* token was set by POST /api/auth/token and DELETE has not been called since
NoToken == [accessToken |-> Null, tokenSet |-> FALSE]

\* no second process runs
NoPeer == [running |-> FALSE]

generateRedirectUrl(name, protocol) ==
    LET extension == IF protocol = Hls THEN "m3u8" ELSE "mpd"
    IN  baseUrl \o <<"/redirect/">> \o name \o <<".", extension>>

----------------------------------------------------------------------------
\* Requests

X == <<"x">>
SrcPlain == <<"https://src.example/a.m3u8">>
BadName == <<"b", "a", "d", " ", "n", "a", "m", "e", "!">>

Names == {X}
Protocols == {Hls, Dash, Smooth}
RequiredFields == {"name", "instanceUrl", "sourceUrl", "protocol"}

\* a request body with every field given
FullBody(n, p) ==
    [name |-> n, instanceUrl |-> <<"https://proxy.example">>,
     sourceUrl |-> <<"https://src.example/a.m3u8">>, protocol |-> p,
     streamType |-> Vod, description |-> <<"d">>,
     delays |-> << [i |-> Str(<<"*">>), ms |-> Num(1000)] >>,
     statusCodes |-> << [sq |-> Num(3), code |-> Num(404)] >>,
     timeouts |-> << [br |-> Num(2000000)] >>,
     throttles |-> << [i |-> Num(0), rate |-> Num(100000)] >>]

\* a request body with only the required fields, and other URLs
MinimalBody(n, p) ==
    [name |-> n, instanceUrl |-> <<"https://other.example">>,
     sourceUrl |-> <<"https://src.example/b.mpd">>, protocol |-> p]

ValidBodies == {FullBody(n, p) : n \in Names, p \in Protocols}
               \cup {MinimalBody(n, p) : n \in Names, p \in {Hls}}

InvalidBodies ==
    {Restrict(FullBody(X, Hls), DOMAIN FullBody(X, Hls) \ {k}) : k \in RequiredFields}
    \cup {FullBody(BadName, Hls), FullBody(<<>>, Hls)}

Bodies == ValidBodies \cup InvalidBodies

\* x.m3u8 and x.mpd, and two filenames without a known extension: x.xyz and
\* x, shorter than either extension
Filenames == {n \o e : n \in Names, e \in {M3u8Ext, MpdExt}} \cup {X \o XyzExt, X}

NoRedirect == [none |-> TRUE]

----------------------------------------------------------------------------
\* Routes

NameChars ==
    {"a", "b", "c", "d", "e", "f", "g", "h", "i", "j", "k", "l", "m",
     "n", "o", "p", "q", "r", "s", "t", "u", "v", "w", "x", "y", "z",
     "A", "B", "C", "D", "E", "F", "G", "H", "I", "J", "K", "L", "M",
     "N", "O", "P", "Q", "R", "S", "T", "U", "V", "W", "X", "Y", "Z",
     "0", "1", "2", "3", "4", "5", "6", "7", "8", "9", "_", "-"}

\* /^[a-zA-Z0-9_-]+$/.test(name)
NameMatches(name) == Len(name) >= 1 /\ \A i \in 1..Len(name) : name[i] \in NameChars

\* `list || []`
OrEmpty(body, k) == IF k \in DOMAIN body THEN body[k] ELSE <<>>

\* faulty variant: streamType is stored as given, without the default
ConfigFromBodyNoDefault(body) ==
    [name |-> body.name, instanceUrl |-> body.instanceUrl,
     sourceUrl |-> body.sourceUrl, protocol |-> body.protocol,
     streamType |-> Field(body, "streamType"),
     description |-> Field(body, "description"),
     delays |-> OrEmpty(body, "delays"), statusCodes |-> OrEmpty(body, "statusCodes"),
     timeouts |-> OrEmpty(body, "timeouts"), throttles |-> OrEmpty(body, "throttles")]

\* the record the save route hands to saveConfig
ConfigFromBody(body) ==
    [name |-> body.name, instanceUrl |-> body.instanceUrl,
     sourceUrl |-> body.sourceUrl, protocol |-> body.protocol,
     streamType |-> IF Truthy(Field(body, "streamType")) THEN body.streamType ELSE Live,
     description |-> Field(body, "description"),
     delays |-> OrEmpty(body, "delays"), statusCodes |-> OrEmpty(body, "statusCodes"),
     timeouts |-> OrEmpty(body, "timeouts"), throttles |-> OrEmpty(body, "throttles")]

\* faulty variant: the name format is not checked
SaveStatusNoNameCheck(body) ==
    IF \E k \in RequiredFields : ~Truthy(Field(body, k)) THEN 400 ELSE 200

\* the save route's checks: the status it answers before touching the store
SaveStatus(body) ==
    IF \E k \in RequiredFields : ~Truthy(Field(body, k)) THEN 400
    ELSE IF ~NameMatches(body.name) THEN 400
    ELSE 200

SamePair(b, name, protocol) == b.name = name /\ b.protocol = protocol

\* POST /api/config
Save(body) ==
    IF SaveStatus(body) # 200
    THEN /\ response' = [op |-> "save", req |-> body, status |-> SaveStatus(body)]
         /\ lastRedirect' = NoRedirect
         /\ UNCHANGED <<configs, file, failures, hist, histDisk, others>>
    ELSE \E ok \in BOOLEAN :
         /\ ok \/ failures < MaxWriteFailures
         /\ hasConfig(configs, body.name, body.protocol) \/ Len(configs) < MaxConfigs
         /\ configs' = saveConfig(configs, ConfigFromBody(body))
         /\ file' = saveToFile(configs', file, ok)
         /\ failures' = IF ok THEN failures ELSE failures + 1
         /\ response' = [op |-> "save", req |-> body, status |-> 200, wrote |-> ok,
                          replaced |-> getConfig(configs, body.name, body.protocol)]
         /\ hist' = <<body>> \o SelectSeq(hist, LAMBDA b : ~SamePair(b, body.name, body.protocol))
         /\ histDisk' = IF ok THEN hist' ELSE histDisk
         /\ UNCHANGED <<lastRedirect, others>>

\* faulty variant: the proxy URL of the record first saved is reported
WithUrlsFirst(m, config) ==
    [config |-> config,
     proxyUrl |-> generateProxyUrl(m, m[1].value.name, m[1].value.protocol),
     redirectUrl |-> generateRedirectUrl(config.name, config.protocol)]

WithUrls(m, config) ==
    [config |-> config,
     proxyUrl |-> generateProxyUrl(m, config.name, config.protocol),
     redirectUrl |-> generateRedirectUrl(config.name, config.protocol)]

\* GET /api/config
List ==
    /\ response' = [op |-> "list", status |-> 200,
                     configs |-> [i \in 1..Len(configs) |-> WithUrls(configs, listConfigs(configs)[i])]]
    /\ lastRedirect' = NoRedirect
    /\ UNCHANGED <<configs, file, failures, hist, histDisk, others>>

\* faulty variant: any protocol token is accepted
ValidProtocolAny(protocol) == TRUE

\* the protocol check of the fetch and delete routes
ValidProtocol(protocol) == protocol = Hls \/ protocol = Dash

\* GET /api/config/:name/:protocol; lookedUp records whether the handler
\* reached its call of the store
Get(name, protocol) ==
    /\ response' =
         IF ~ValidProtocol(protocol)
         THEN [op |-> "get", name |-> name, protocol |-> protocol, status |-> 400,
               lookedUp |-> FALSE]
         ELSE IF getConfig(configs, name, protocol) = Null
         THEN [op |-> "get", name |-> name, protocol |-> protocol, status |-> 404,
               lookedUp |-> TRUE]
         ELSE [op |-> "get", name |-> name, protocol |-> protocol, status |-> 200,
               lookedUp |-> TRUE,
               body |-> WithUrls(configs, getConfig(configs, name, protocol))]
    /\ lastRedirect' = NoRedirect
    /\ UNCHANGED <<configs, file, failures, hist, histDisk, others>>

\* DELETE /api/config/:name/:protocol
Delete(name, protocol) ==
    IF ~ValidProtocol(protocol)
    THEN /\ response' = [op |-> "delete", name |-> name, protocol |-> protocol, status |-> 400,
                          lookedUp |-> FALSE]
         /\ lastRedirect' = NoRedirect
         /\ UNCHANGED <<configs, file, failures, hist, histDisk, others>>
    ELSE IF ~hasConfig(configs, name, protocol)
    THEN /\ response' = [op |-> "delete", name |-> name, protocol |-> protocol, status |-> 404,
                          lookedUp |-> TRUE]
         /\ lastRedirect' = NoRedirect
         /\ UNCHANGED <<configs, file, failures, hist, histDisk, others>>
    ELSE \E ok \in BOOLEAN :
         /\ ok \/ failures < MaxWriteFailures
         /\ configs' = deleteConfig(configs, name, protocol)
         /\ file' = saveToFile(configs', file, ok)
         /\ failures' = IF ok THEN failures ELSE failures + 1
         /\ response' = [op |-> "delete", name |-> name, protocol |-> protocol,
                          status |-> 200, lookedUp |-> TRUE, wrote |-> ok]
         /\ hist' = SelectSeq(hist, LAMBDA b : ~SamePair(b, name, protocol))
         /\ histDisk' = IF ok THEN hist' ELSE histDisk
         /\ lastRedirect' = NoRedirect
         /\ UNCHANGED others

EndsWith(s, suffix) ==
    Len(s) >= Len(suffix) /\ SubSeq(s, Len(s) - Len(suffix) + 1, Len(s)) = suffix

\* filename.slice(0, -n)
SliceOff(s, n) == SubSeq(s, 1, Len(s) - n)

\* faulty variant: the extension is cut off and the protocol taken as hls
ParseFilenameAlwaysHls(filename) ==
    IF EndsWith(filename, M3u8Ext) THEN [name |-> SliceOff(filename, 5), protocol |-> Hls]
    ELSE IF EndsWith(filename, MpdExt) THEN [name |-> SliceOff(filename, 4), protocol |-> Hls]
    ELSE Null

\* faulty variant: a filename without a known extension is looked up as hls
ParseFilenameLenient(filename) ==
    IF EndsWith(filename, M3u8Ext) THEN [name |-> SliceOff(filename, 5), protocol |-> Hls]
    ELSE IF EndsWith(filename, MpdExt) THEN [name |-> SliceOff(filename, 4), protocol |-> Dash]
    ELSE [name |-> filename, protocol |-> Hls]

\* the (name, protocol) the redirect route derives from a filename, or Null
ParseFilename(filename) ==
    IF EndsWith(filename, M3u8Ext) THEN [name |-> SliceOff(filename, 5), protocol |-> Hls]
    ELSE IF EndsWith(filename, MpdExt) THEN [name |-> SliceOff(filename, 4), protocol |-> Dash]
    ELSE Null

\* GET /redirect/:filename; lookedUp and encoded record whether the handler
\* reached its calls of getConfig and of generateProxyUrl
Redirect(filename) ==
    LET parsed == ParseFilename(filename)
        answer == [op |-> "redirect", filename |-> filename, prev |-> lastRedirect]
    IN  /\ IF parsed = Null
           THEN response' = answer @@ [status |-> 400, lookedUp |-> FALSE, encoded |-> FALSE]
           ELSE IF getConfig(configs, parsed.name, parsed.protocol) = Null
           THEN response' = answer @@ [status |-> 404, lookedUp |-> TRUE, encoded |-> FALSE]
           ELSE IF generateProxyUrl(configs, parsed.name, parsed.protocol) = Null
           THEN response' = answer @@ [status |-> 500, lookedUp |-> TRUE, encoded |-> TRUE]
           ELSE response' = answer @@ [status |-> 302, lookedUp |-> TRUE, encoded |-> TRUE,
                    location |-> generateProxyUrl(configs, parsed.name, parsed.protocol)]
        /\ lastRedirect' = IF response'.status = 302
                            THEN [filename |-> filename, location |-> response'.location]
                            ELSE NoRedirect
        /\ UNCHANGED <<configs, file, failures, hist, histDisk, others>>

\* the process is stopped and started again: the constructor runs
Restart ==
    /\ configs' = loadFromFile(file)
    /\ response' = [op |-> "restart"]
    /\ hist' = histDisk
    /\ lastRedirect' = NoRedirect
    /\ UNCHANGED <<file, failures, histDisk, others>>

----------------------------------------------------------------------------
\* A second server process over the same chaos-configs.json

\* the second process starts: its constructor loads the file as it is now
PeerStart ==
    /\ ~peer.running
    /\ peer' = [running |-> TRUE, configs |-> loadFromFile(file)]
    /\ response' = [op |-> "peer start"]
    /\ UNCHANGED <<configs, file, failures, hist, histDisk, lastRedirect, env, osc, ui>>

\* POST /api/config answered by the second process, with a body the route
\* accepts: saveConfig on its own collection, saveToFile on the shared file
PeerSave(body) ==
    /\ peer.running
    /\ SaveStatus(body) = 200
    /\ \E ok \in BOOLEAN :
         /\ ok \/ failures < MaxWriteFailures
         /\ hasConfig(peer.configs, body.name, body.protocol) \/ Len(peer.configs) < MaxConfigs
         /\ peer' = [peer EXCEPT !.configs = saveConfig(@, ConfigFromBody(body))]
         /\ file' = saveToFile(peer'.configs, file, ok)
         /\ failures' = IF ok THEN failures ELSE failures + 1
         /\ response' = [op |-> "peer save", req |-> body, status |-> 200, wrote |-> ok]
    /\ UNCHANGED <<configs, hist, histDisk, lastRedirect, env, osc, ui>>

----------------------------------------------------------------------------
\* The configuration editor of the browser (ChaosConfig, ConfigurationManager)

\* a property of a descriptor that holds undefined
Undef == [t |-> "undefined"]

\* d.k !== undefined
IsSet(d, k) == k \in DOMAIN d /\ d[k].t # "undefined"

\* { ...d, k: v }
With(d, k, v) == [x \in DOMAIN d \cup {k} |-> IF x = k THEN v ELSE d[x]]

getTargetingMode(value) ==
    IF IsSet(value, "i") /\ value.i.t = "string" /\ value.i.v = <<"*">> THEN "all"
    ELSE IF IsSet(value, "i") THEN "index"
    ELSE IF IsSet(value, "sq") THEN "sequence"
    ELSE IF IsSet(value, "rsq") THEN "relative"
    ELSE IF IsSet(value, "br") THEN "bitrate"
    ELSE IF IsSet(value, "l") THEN "ladder"
    ELSE "none"

\* faulty variant: the fields of the mode left behind are kept
handleModeChangeKeep(value, mode) ==
    CASE mode = "all" -> With(value, "i", Str(<<"*">>))
      [] mode = "index" -> With(value, "i", Num(0))
      [] mode = "sequence" -> With(value, "sq", Num(0))
      [] mode = "relative" -> With(value, "rsq", Num(0))
      [] mode = "bitrate" -> With(value, "br", Num(1000000))
      [] mode = "ladder" -> With(value, "l", Num(1))
      [] OTHER -> value

\* handleModeChange: i, sq, rsq, br are set to undefined, l too where the
\* descriptor has that key, then the field of the mode is given its start value
handleModeChange(value, mode) ==
    LET cleared == [k \in DOMAIN value \cup {"i", "sq", "rsq", "br"} |->
                       IF k \in {"i", "sq", "rsq", "br", "l"} THEN Undef ELSE value[k]]
    IN  CASE mode = "all" -> With(cleared, "i", Str(<<"*">>))
          [] mode = "index" -> With(cleared, "i", Num(0))
          [] mode = "sequence" -> With(cleared, "sq", Num(0))
          [] mode = "relative" -> With(cleared, "rsq", Num(0))
          [] mode = "bitrate" -> With(cleared, "br", Num(1000000))
          [] mode = "ladder" -> With(cleared, "l", Num(1))
          [] OTHER -> cleared

\* the delay editor passes showLadder = true, the other three leave it false
ShowLadder(kind) == kind = "delays"

\* the options of the Target Segments select
ModeOptions(statefulMode, showLadder) ==
    {"none", "all", "index", "sequence", "bitrate"}
    \cup (IF statefulMode THEN {"relative"} ELSE {})
    \cup (IF showLadder THEN {"ladder"} ELSE {})

\* the field the number input of a targeting mode writes
ModeField(mode) ==
    CASE mode = "index" -> "i"
      [] mode = "sequence" -> "sq"
      [] mode = "relative" -> "rsq"
      [] mode = "bitrate" -> "br"
      [] mode = "ladder" -> "l"

\* what the user types into a number input: nothing, or 5
Inputs == {"", "5"}

\* e.target.value ? parseInt(e.target.value) : empty
ParsedOr(text, empty) == IF text = "" THEN empty ELSE Num(5)

\* the onChange of the number input shown for the current targeting mode:
\* the index input falls back to 0, the others to undefined
EditTargetValue(value, text) ==
    LET mode == getTargetingMode(value)
    IN  With(value, ModeField(mode), ParsedOr(text, IF mode = "index" THEN Num(0) ELSE Undef))

\* the descriptor addDelay, addStatusCode, addTimeout, addThrottle append
NewDescriptor(kind) ==
    CASE kind = "delays" -> [ms |-> Num(1000)]
      [] kind = "statusCodes" -> [code |-> Num(404)]
      [] kind = "timeouts" -> <<>>
      [] kind = "throttles" -> [rate |-> Num(100000)]

\* JSON.stringify of a descriptor: properties that hold undefined are left out
StringifyDescriptor(d) == Restrict(d, {k \in DOMAIN d : d[k].t # "undefined"})

UrlA == <<"https://a.example">>
UrlB == <<"https://b.example">>

\* the instances the selector offers: a is stateful, b is not
InstanceChoices ==
    {[name |-> "a", url |-> UrlA, statefulMode |-> TRUE],
     [name |-> "b", url |-> UrlB, statefulMode |-> FALSE]}

\* the configurations loadConfigurations has fetched: x/hls on the stateful
\* instance a with a relative-sequence delay, x/dash on b without descriptors
Configurations ==
    {[name |-> X, instanceUrl |-> UrlA, sourceUrl |-> SrcPlain, protocol |-> Hls,
      streamType |-> Live,
      delays |-> << [rsq |-> Num(3), ms |-> Num(200)] >>,
      statusCodes |-> <<>>, timeouts |-> <<>>, throttles |-> <<>>],
     [name |-> X, instanceUrl |-> UrlB, sourceUrl |-> SrcPlain, protocol |-> Dash,
      streamType |-> Live,
      delays |-> <<>>, statusCodes |-> <<>>, timeouts |-> <<>>, throttles |-> <<>>]}

\* the config state of ConfigurationManager as first rendered and after
\* handleCreateNew
EmptyDraft ==
    [sourceUrl |-> <<>>, protocol |-> Hls, streamType |-> Live,
     delays |-> <<>>, statusCodes |-> <<>>, timeouts |-> <<>>, throttles |-> <<>>]

\* the field a delay, status code or throttle has of its own
OwnFields == {"ms", "code", "rate"}

\* history: no targeting mode was chosen in the step just taken
NoMode == [none |-> TRUE]

\* the browser with no edit form open and no instance selected; lastMode is
\* history: the mode the user chose in the step just taken, with the
\* descriptor's own field as it was before
NoEditor ==
    [open |-> FALSE, instance |-> Null, configName |-> <<>>, config |-> EmptyDraft,
     lastMode |-> NoMode]

\* the configuration handleEdit and handleDuplicate copy into the form
DraftOf(configuration) ==
    [k \in DOMAIN EmptyDraft |->
        IF k = "streamType" /\ ~Truthy(Field(configuration, k)) THEN Live ELSE configuration[k]]

DescriptorCount(config) ==
    Len(config.delays) + Len(config.statusCodes) + Len(config.timeouts) + Len(config.throttles)

\* ChaosConfig and UrlGenerator are rendered: the form is open and an
\* instance is selected
FormShown == ui.open /\ ui.instance # Null

\* the three handlers that open the form mount a new UrlGenerator, whose
\* record of the last save starts empty
handleCreateNew ==
    /\ ui' = [ui EXCEPT !.open = TRUE, !.configName = <<>>, !.config = EmptyDraft,
                        !.lastMode = NoMode]
    /\ response' = [op |-> "form"]
    /\ UNCHANGED <<configs, file, failures, hist, histDisk, lastRedirect, env, osc, peer>>

handleEdit(configuration) ==
    /\ ui' = [ui EXCEPT !.open = TRUE,
                        !.configName = configuration.name,
                        !.config = DraftOf(configuration),
                        !.instance =
                            IF ui.instance = Null \/ ui.instance.url # configuration.instanceUrl
                            THEN [name |-> "loaded", url |-> configuration.instanceUrl,
                                  statefulMode |-> TRUE]
                            ELSE ui.instance,
                        !.lastMode = NoMode]
    /\ response' = [op |-> "form"]
    /\ UNCHANGED <<configs, file, failures, hist, histDisk, lastRedirect, env, osc, peer>>

handleDuplicate(configuration) ==
    /\ ui' = [ui EXCEPT !.open = TRUE,
                        !.configName = configuration.name \o <<"-", "c", "o", "p", "y">>,
                        !.config = DraftOf(configuration),
                        !.instance = [name |-> "loaded", url |-> configuration.instanceUrl,
                                      statefulMode |-> TRUE],
                        !.lastMode = NoMode]
    /\ response' = [op |-> "form"]
    /\ UNCHANGED <<configs, file, failures, hist, histDisk, lastRedirect, env, osc, peer>>

handleCancelEdit ==
    /\ ui.open
    /\ ui' = [ui EXCEPT !.open = FALSE, !.lastMode = NoMode]
    /\ UNCHANGED <<configs, file, response, failures, hist, histDisk, lastRedirect, env, osc, peer>>

\* the Select button of the instance selector of the form (after Change
\* Proxy where an instance is already selected): onInstanceSelect(instance)
SelectInstance(instance) ==
    /\ ui.open
    /\ ui' = [ui EXCEPT !.instance = instance, !.lastMode = NoMode]
    /\ UNCHANGED <<configs, file, response, failures, hist, histDisk, lastRedirect, env, osc, peer>>

\* UrlGenerator's name input
EditConfigName(name) ==
    /\ FormShown
    /\ ui' = [ui EXCEPT !.configName = name, !.lastMode = NoMode]
    /\ UNCHANGED <<configs, file, response, failures, hist, histDisk, lastRedirect, env, osc, peer>>

\* StreamConfig's source URL input
EditSourceUrl(url) ==
    /\ FormShown
    /\ ui' = [ui EXCEPT !.config.sourceUrl = url, !.lastMode = NoMode]
    /\ UNCHANGED <<configs, file, response, failures, hist, histDisk, lastRedirect, env, osc, peer>>

\* addDelay, addStatusCode, addTimeout, addThrottle
AddDescriptor(kind) ==
    /\ FormShown
    /\ DescriptorCount(ui.config) < MaxDescriptors
    /\ ui' = [ui EXCEPT !.config[kind] = Append(@, NewDescriptor(kind)), !.lastMode = NoMode]
    /\ UNCHANGED <<configs, file, response, failures, hist, histDisk, lastRedirect, env, osc, peer>>

\* removeDelay, removeStatusCode, removeTimeout, removeThrottle
RemoveDescriptor(kind, index) ==
    /\ FormShown
    /\ index \in 1..Len(ui.config[kind])
    /\ ui' = [ui EXCEPT !.config[kind] =
                  SubSeq(@, 1, index - 1) \o SubSeq(@, index + 1, Len(@)),
                        !.lastMode = NoMode]
    /\ UNCHANGED <<configs, file, response, failures, hist, histDisk, lastRedirect, env, osc, peer>>

\* the Target Segments select of descriptor `index` of list `kind`
ChangeMode(kind, index, mode) ==
    /\ FormShown
    /\ index \in 1..Len(ui.config[kind])
    /\ mode \in ModeOptions(ui.instance.statefulMode, ShowLadder(kind))
    /\ ui' = [ui EXCEPT !.config[kind][index] = handleModeChange(@, mode),
                        !.lastMode = [kind |-> kind, index |-> index, mode |-> mode,
                                      own |-> Restrict(ui.config[kind][index],
                                                      OwnFields \cap DOMAIN ui.config[kind][index])]]
    /\ UNCHANGED <<configs, file, response, failures, hist, histDisk, lastRedirect, env, osc, peer>>

\* the number input below the select: rendered for index, sequence and
\* bitrate, for relative with a stateful instance, for ladder with showLadder
EditTarget(kind, index, text) ==
    /\ FormShown
    /\ index \in 1..Len(ui.config[kind])
    /\ LET mode == getTargetingMode(ui.config[kind][index])
       IN  /\ mode \in {"index", "sequence", "relative", "bitrate", "ladder"}
           /\ mode = "relative" => ui.instance.statefulMode
           /\ mode = "ladder" => ShowLadder(kind)
    /\ ui' = [ui EXCEPT !.config[kind][index] = EditTargetValue(@, text),
                        !.lastMode = NoMode]
    /\ UNCHANGED <<configs, file, response, failures, hist, histDisk, lastRedirect, env, osc, peer>>

\* the body handleSaveConfiguration posts
PostedBody ==
    [name |-> ui.configName, instanceUrl |-> ui.instance.url,
     sourceUrl |-> ui.config.sourceUrl, protocol |-> ui.config.protocol,
     streamType |-> ui.config.streamType,
     delays |-> [i \in 1..Len(ui.config.delays) |-> StringifyDescriptor(ui.config.delays[i])],
     statusCodes |-> [i \in 1..Len(ui.config.statusCodes) |->
                         StringifyDescriptor(ui.config.statusCodes[i])],
     timeouts |-> [i \in 1..Len(ui.config.timeouts) |->
                      StringifyDescriptor(ui.config.timeouts[i])],
     throttles |-> [i \in 1..Len(ui.config.throttles) |->
                       StringifyDescriptor(ui.config.throttles[i])]]

\* handleSaveConfiguration: the name and the source URL are checked, the body
\* is posted with the URL of the selected instance, and the form is closed
\* by handleSaveComplete; the server is taken to accept the body
handleSaveConfiguration ==
    /\ FormShown
    /\ IF ~NameMatches(ui.configName) \/ ~Truthy(ui.config.sourceUrl)
       THEN /\ response' = [op |-> "post", status |-> "not sent"]
            /\ ui' = [ui EXCEPT !.lastMode = NoMode]
       ELSE /\ response' = [op |-> "post", status |-> "sent", req |-> PostedBody,
                             instance |-> ui.instance]
            /\ ui' = [ui EXCEPT !.open = FALSE, !.lastMode = NoMode]
    /\ UNCHANGED <<configs, file, failures, hist, histDisk, lastRedirect, env, osc, peer>>

Kinds == {"delays", "statusCodes", "timeouts", "throttles"}

InitEditor ==
    /\ ui = NoEditor
    /\ configs = EmptyMap
    /\ file = [kind |-> "missing"]
    /\ response = [op |-> "start"]
    /\ failures = 0
    /\ hist = <<>>
    /\ histDisk = <<>>
    /\ lastRedirect = NoRedirect
    /\ env = NoEnv
    /\ osc = NoToken
    /\ peer = NoPeer

NextEditor ==
    \/ handleCreateNew
    \/ \E configuration \in Configurations : handleEdit(configuration)
    \/ \E configuration \in Configurations : handleDuplicate(configuration)
    \/ handleCancelEdit
    \/ \E instance \in InstanceChoices : SelectInstance(instance)
    \/ EditConfigName(X)
    \/ EditSourceUrl(SrcPlain)
    \/ \E kind \in Kinds : AddDescriptor(kind)
    \/ \E kind \in Kinds, index \in 1..MaxDescriptors : RemoveDescriptor(kind, index)
    \/ \E kind \in Kinds, index \in 1..MaxDescriptors, mode \in ModeOptions(TRUE, TRUE) :
          ChangeMode(kind, index, mode)
    \/ \E kind \in Kinds, index \in 1..MaxDescriptors, text \in Inputs :
          EditTarget(kind, index, text)
    \/ handleSaveConfiguration

SpecEditor == InitEditor /\ [][NextEditor]_vars

----------------------------------------------------------------------------
\* The OSC client (oscClient) and the token and instance routes over it

\* the message the osc command line fails with
CliFailure == <<"connect ETIMEDOUT">>

\* what a run of the osc command line does: it succeeds, or it fails
CliOutcomes == {[ok |-> TRUE], [ok |-> FALSE, message |-> CliFailure]}

\* what a run of osc describe does: it prints the instance with its
\* statefulmode, or it fails
DescribeOutcomes ==
    {[ok |-> TRUE, statefulmode |-> TRUE], [ok |-> TRUE, statefulmode |-> FALSE],
     [ok |-> FALSE, message |-> CliFailure]}

\* !this.accessToken is false: the token is neither null nor ''
Usable(token) == token # Null /\ token.v # <<>>

\* executeOSCCommand: without a token the command is not run; every error is
\* thrown again as 'OSC CLI command failed: <message>'
executeOSCCommand(token, cli) ==
    IF ~Usable(token)
    THEN [threw |-> TRUE, ran |-> FALSE,
          message |-> <<"OSC CLI command failed: ",
                        "OSC access token not set. Please configure your token first.">>]
    ELSE IF ~cli.ok
    THEN [threw |-> TRUE, ran |-> TRUE, message |-> <<"OSC CLI command failed: ">> \o cli.message]
    ELSE [threw |-> FALSE, ran |-> TRUE]

\* describeInstance: the parsed output, null where the command threw
describeInstance(token, name, cli) ==
    IF executeOSCCommand(token, cli).threw THEN Null
    ELSE [name |-> name, url |-> <<"https://">> \o name \o <<".osc.eyevinn.technology">>,
          statefulmode |-> cli.statefulmode]

\* listInstances: the names of the list output, each described in turn; an
\* instance whose description is null is not pushed
listInstances(token, cli, names, describes) ==
    LET r == executeOSCCommand(token, cli)
        details == [i \in 1..Len(names) |-> describeInstance(token, names[i], describes[names[i]])]
        pushed == SelectSeq(details, LAMBDA d : d # Null)
    IN  IF r.threw THEN r
        ELSE [threw |-> FALSE, ran |-> TRUE,
              instances |-> [i \in 1..Len(pushed) |->
                                [name |-> pushed[i].name, url |-> pushed[i].url,
                                 statefulMode |-> pushed[i].statefulmode]]]

\* createInstance: an Error is thrown again as it is
createInstance(token, name, statefulMode, cli) ==
    LET r == executeOSCCommand(token, cli)
    IN  IF r.threw THEN r
        ELSE [threw |-> FALSE, ran |-> TRUE,
              instance |-> [name |-> name,
                            url |-> <<"https://">> \o name \o <<".osc.eyevinn.technology">>,
                            statefulMode |-> statefulMode]]

\* deleteInstance: whatever was caught, a new Error with a fixed message is thrown
deleteInstance(token, name, cli) ==
    LET r == executeOSCCommand(token, cli)
    IN  IF r.threw THEN [threw |-> TRUE, ran |-> r.ran,
                         message |-> <<"Failed to delete chaos proxy instance">>]
        ELSE r

\* the token property of the body of POST /api/auth/token
TokenInputs == {Str(<<"t">>), Str(<<"u">>), Str(<<>>), Undef}

\* POST /api/auth/token
SetToken(token) ==
    /\ IF token.t # "string" \/ token.v = <<>>
       THEN /\ response' = [op |-> "set token", req |-> token, status |-> 400]
            /\ UNCHANGED osc
       ELSE /\ response' = [op |-> "set token", req |-> token, status |-> 200]
            /\ osc' = [accessToken |-> token, tokenSet |-> TRUE]
    /\ UNCHANGED <<configs, file, failures, hist, histDisk, lastRedirect, env, ui, peer>>

\* GET /api/auth/token/status
TokenStatus ==
    /\ response' = [op |-> "token status", status |-> 200,
                     configured |-> osc.accessToken # Null]
    /\ UNCHANGED <<configs, file, failures, hist, histDisk, lastRedirect, env, osc, ui, peer>>

\* DELETE /api/auth/token: setAccessToken('')
ClearToken ==
    /\ response' = [op |-> "clear token", status |-> 200]
    /\ osc' = [accessToken |-> Str(<<>>), tokenSet |-> FALSE]
    /\ UNCHANGED <<configs, file, failures, hist, histDisk, lastRedirect, env, ui, peer>>

\* the answer of an instance route to a call of the client that threw (500
\* with the message of the error) or returned; cliFailed is history: a run
\* of the command line failed while the request was served
InstanceAnswer(op, req, r, status, cliFailed) ==
    IF r.threw
    THEN [op |-> op, req |-> req, status |-> 500, message |-> r.message, ran |-> r.ran,
          cliFailed |-> cliFailed]
    ELSE [op |-> op, req |-> req, status |-> status, result |-> r, ran |-> r.ran,
          cliFailed |-> cliFailed]

\* GET /api/chaos-proxy/instances
GetInstances(cli, names, describes) ==
    /\ response' =
         InstanceAnswer("list instances", <<>>,
                        listInstances(osc.accessToken, cli, names, describes), 200,
                        /\ Usable(osc.accessToken)
                        /\ \/ ~cli.ok
                           \/ \E i \in 1..Len(names) : ~describes[names[i]].ok)
    /\ UNCHANGED <<configs, file, failures, hist, histDisk, lastRedirect, env, osc, ui, peer>>

\* POST /api/chaos-proxy/instances
PostInstance(body, cli) ==
    /\ response' =
         IF ~Truthy(Field(body, "name")) \/ "statefulMode" \notin DOMAIN body
         THEN [op |-> "create instance", req |-> body, status |-> 400, ran |-> FALSE,
               cliFailed |-> FALSE]
         ELSE InstanceAnswer("create instance", body,
                             createInstance(osc.accessToken, body.name, body.statefulMode, cli),
                             201, Usable(osc.accessToken) /\ ~cli.ok)
    /\ UNCHANGED <<configs, file, failures, hist, histDisk, lastRedirect, env, osc, ui, peer>>

\* DELETE /api/chaos-proxy/instances/:name
DeleteInstance(name, cli) ==
    /\ response' = InstanceAnswer("delete instance", name,
                                  deleteInstance(osc.accessToken, name, cli),
                                  200, Usable(osc.accessToken) /\ ~cli.ok)
    /\ UNCHANGED <<configs, file, failures, hist, histDisk, lastRedirect, env, osc, ui, peer>>

\* GET /api/chaos-proxy/instances/:name
GetInstance(name, cli) ==
    /\ response' =
         LET instance == describeInstance(osc.accessToken, name, cli)
             cliFailed == Usable(osc.accessToken) /\ ~cli.ok
         IN  IF instance = Null
             THEN [op |-> "describe instance", req |-> name, status |-> 404,
                   ran |-> Usable(osc.accessToken), cliFailed |-> cliFailed]
             ELSE [op |-> "describe instance", req |-> name, status |-> 200,
                   instance |-> instance, ran |-> TRUE, cliFailed |-> cliFailed]
    /\ UNCHANGED <<configs, file, failures, hist, histDisk, lastRedirect, env, osc, ui, peer>>

\* the instance names the list command prints and the routes are called with
InstanceNames == {<<"a">>, <<"b">>, <<"c">>}

InitOsc ==
    /\ osc = NoToken
    /\ configs = EmptyMap
    /\ file = [kind |-> "missing"]
    /\ response = [op |-> "start"]
    /\ failures = 0
    /\ hist = <<>>
    /\ histDisk = <<>>
    /\ lastRedirect = NoRedirect
    /\ env = NoEnv
    /\ ui = NoEditor
    /\ peer = NoPeer

NextOsc ==
    \/ \E token \in TokenInputs : SetToken(token)
    \/ TokenStatus
    \/ ClearToken
    \/ \E cli \in CliOutcomes, names \in {<<>>, << <<"a">> >>, << <<"a">>, <<"b">> >>,
                                                << <<"a">>, <<"b">>, <<"c">> >>},
          describes \in [InstanceNames -> DescribeOutcomes] :
             GetInstances(cli, names, describes)
    \/ \E body \in {[name |-> <<"a">>, statefulMode |-> TRUE],
                    [name |-> <<"a">>, statefulMode |-> FALSE],
                    [name |-> <<"a">>], [statefulMode |-> TRUE]},
          cli \in CliOutcomes : PostInstance(body, cli)
    \/ \E name \in InstanceNames, cli \in CliOutcomes : DeleteInstance(name, cli)
    \/ \E name \in InstanceNames, cli \in DescribeOutcomes : GetInstance(name, cli)

SpecOsc == InitOsc /\ [][NextOsc]_vars

----------------------------------------------------------------------------
\* The specification

\* what chaos-configs.json may hold when the process first starts
InitFiles ==
    {[kind |-> "missing"], [kind |-> "unreadable"], [kind |-> "unparseable"],
     [kind |-> "object"],
     [kind |-> "array", items |-> <<Stringify(ConfigFromBody(FullBody(X, Hls))), Null>>]}

Init ==
    /\ file \in InitFiles
    /\ configs = loadFromFile(file)
    /\ response = [op |-> "start"]
    /\ failures = 0
    /\ hist = <<>>
    /\ histDisk = <<>>
    /\ lastRedirect = NoRedirect
    /\ env = NoEnv
    /\ osc = NoToken
    /\ ui = NoEditor
    /\ peer = NoPeer

Next ==
    \/ \E body \in Bodies : Save(body)
    \/ List
    \/ \E name \in Names, protocol \in Protocols : Get(name, protocol)
    \/ \E name \in Names, protocol \in Protocols : Delete(name, protocol)
    \/ \E filename \in Filenames : Redirect(filename)
    \/ Restart

Spec == Init /\ [][Next]_vars

----------------------------------------------------------------------------
\* The same program on input outside the declared types: a file edited by
\* hand and request bodies no editor produces

\* a body whose one delay descriptor has two targeting fields set
TwoTargetsBody(n, p) ==
    [name |-> n, instanceUrl |-> <<"https://proxy.example">>,
     sourceUrl |-> <<"https://src.example/a.m3u8">>, protocol |-> p,
     delays |-> << [i |-> Num(1), sq |-> Num(2), ms |-> Num(500)] >>]

\* a body whose four lists each hold one descriptor with every targeting
\* field, every kind's own field and a field no kind has
AllFieldsBody(n, p) ==
    LET d == [extra |-> Num(9), rate |-> Num(8), code |-> Num(7), ms |-> Num(6), l |-> Num(5),
              br |-> Num(4), rsq |-> Num(3), sq |-> Num(2), i |-> Num(1)]
    IN  [name |-> n, instanceUrl |-> <<"https://proxy.example">>,
         sourceUrl |-> <<"https://src.example/a.m3u8">>, protocol |-> p,
         delays |-> <<d>>, statusCodes |-> <<d>>, timeouts |-> <<d>>, throttles |-> <<d>>]

RawBodies ==
    {TwoTargetsBody(X, Hls), FullBody(X, Dash), FullBody(BadName, Hls), AllFieldsBody(X, Dash)}

\* a record of the file with the sourceUrl key taken out
NoSourceUrl(config) == Restrict(config, DOMAIN config \ {"sourceUrl"})

\* a record of the file with "sourceUrl": ""
EmptySourceUrl(config) == [config EXCEPT !.sourceUrl = <<>>]

EditedFiles ==
    LET hls == NoSourceUrl(Stringify(ConfigFromBody(FullBody(X, Hls))))
        dash == EmptySourceUrl(Stringify(ConfigFromBody(FullBody(X, Dash))))
    IN  {[kind |-> "array", items |-> <<hls>>],
         [kind |-> "array", items |-> <<dash>>],
         [kind |-> "array", items |-> <<hls, dash>>]}

InitRaw ==
    /\ file \in EditedFiles
    /\ configs = loadFromFile(file)
    /\ response = [op |-> "start"]
    /\ failures = 0
    /\ hist = <<>>
    /\ histDisk = <<>>
    /\ lastRedirect = NoRedirect
    /\ env = NoEnv
    /\ osc = NoToken
    /\ ui = NoEditor
    /\ peer = NoPeer

NextRaw ==
    \/ \E body \in RawBodies : Save(body)
    \/ List
    \/ \E name \in Names, protocol \in Protocols : Get(name, protocol)
    \/ \E name \in Names, protocol \in Protocols : Delete(name, protocol)
    \/ \E filename \in Filenames : Redirect(filename)
    \/ Restart

SpecRaw == InitRaw /\ [][NextRaw]_vars

----------------------------------------------------------------------------
\* The encoder on a range of records: the program starts on a file holding one
\* record and answers read requests

\* a source URL with characters a percent-encoding would change
SrcQuery == <<"https", ":", "/", "/", "src.example", "/", "a.mpd", "?", "t", "=", "1", "&",
              "u", "=", "a b">>

\* descriptors of the declared types: a field is a number, '*', or not given
EncDelays ==
    {<<>>,
     << [i |-> Str(<<"*">>), ms |-> Num(1000)] >>,
     << [sq |-> Num(5), ms |-> Num(200)], [l |-> Num(2)] >>,
     << [ms |-> Num(50), i |-> Str(<<"*">>)], <<>> >>}
EncStatusCodes ==
    {<<>>,
     << [i |-> Str(<<"*">>), code |-> Num(500)] >>,
     << [rsq |-> Num(3), code |-> Num(404)], [br |-> Num(1000000)] >>}
EncTimeouts ==
    {<<>>,
     << [br |-> Num(2000000)] >>,
     << [i |-> Str(<<"*">>)] >>,
     << <<>>, [sq |-> Num(7)] >>}
EncThrottles ==
    {<<>>,
     << [i |-> Num(0), rate |-> Num(100000)] >>,
     << [i |-> Str(<<"*">>), rate |-> Num(5000)], [rate |-> Num(1)] >>}

EncConfigs ==
    {[name |-> X, instanceUrl |-> <<"https://proxy.example">>, sourceUrl |-> src,
      protocol |-> p, streamType |-> Live,
      delays |-> d, statusCodes |-> sc, timeouts |-> t, throttles |-> th] :
        src \in {SrcPlain, SrcQuery}, p \in {Hls, Dash},
        d \in EncDelays, sc \in EncStatusCodes, t \in EncTimeouts, th \in EncThrottles}

EncFiles == {[kind |-> "array", items |-> <<Stringify(c)>>] : c \in EncConfigs}

InitEnc ==
    /\ file \in EncFiles
    /\ configs = loadFromFile(file)
    /\ response = [op |-> "start"]
    /\ failures = 0
    /\ hist = <<>>
    /\ histDisk = <<>>
    /\ lastRedirect = NoRedirect
    /\ env = NoEnv
    /\ osc = NoToken
    /\ ui = NoEditor
    /\ peer = NoPeer

NextEnc ==
    \/ \E filename \in Filenames : Redirect(filename)
    \/ \E name \in Names, protocol \in Protocols : Get(name, protocol)
    \/ List

SpecEnc == InitEnc /\ [][NextEnc]_vars

\* the bodies of saves of x/hls and x/dash
PeerBodies == {FullBody(X, Hls), FullBody(X, Dash)}

\* The store started under each environment
EnvNames == {"PUBLIC_HOSTNAME", "PUBLIC_PORT", "PORT", "PUBLIC_PROTOCOL"}

\* the values an environment variable is given; README: PUBLIC_PROTOCOL=https,
\* PUBLIC_HOSTNAME=my-app.example.com, PUBLIC_PORT=443
EnvValues(k) ==
    CASE k = "PUBLIC_HOSTNAME" -> {"my-app.example.com"}
      [] k = "PUBLIC_PORT" -> {"80", "443", "8080"}
      [] k = "PORT" -> {"80", "3000"}
      [] k = "PUBLIC_PROTOCOL" -> {"http", "https"}

\* process.env: every variable unset or set to one of its values
Envs ==
    UNION {{e \in [D -> UNION {EnvValues(k) : k \in EnvNames}] :
               \A k \in D : e[k] \in EnvValues(k)} : D \in SUBSET EnvNames}

InitBase ==
    /\ env \in Envs
    /\ file = [kind |-> "missing"]
    /\ configs = loadFromFile(file)
    /\ response = [op |-> "start"]
    /\ failures = 0
    /\ hist = <<>>
    /\ histDisk = <<>>
    /\ lastRedirect = NoRedirect
    /\ osc = NoToken
    /\ ui = NoEditor
    /\ peer = NoPeer

NextBase ==
    \/ \E body \in PeerBodies : Save(body)
    \/ List
    \/ \E name \in Names, protocol \in Protocols : Get(name, protocol)

SpecBase == InitBase /\ [][NextBase]_vars

\* Two processes saving x/hls and x/dash over one file

NextPeers ==
    \/ \E body \in PeerBodies : Save(body)
    \/ PeerStart
    \/ \E body \in PeerBodies : PeerSave(body)

SpecPeers == Init /\ [][NextPeers]_vars

----------------------------------------------------------------------------
\* Properties

\* what a stored record must hold after an accepted save of `body`: the given
\* fields, streamType 'live' and empty lists where the body omits them
ExpectedContent(body) ==
    [k \in DOMAIN body \cup {"streamType"} \cup ListFields |->
        IF k \in DOMAIN body THEN body[k]
        ELSE IF k = "streamType" THEN Live ELSE <<>>]

\* two records hold the same fields with the same values
SameContent(a, b) ==
    /\ \A k \in StringFields : Field(a, k) = Field(b, k)
    /\ \A k \in ListFields : a[k] = b[k]

\* the redirect path of a (name, protocol)
RedirectPath(name, protocol) == name \o (IF protocol = Hls THEN M3u8Ext ELSE MpdExt)

\* C1: a redirect request for the path of a saved (name, protocol) is
\* answered 302 with the URL encoded from the payload saved last under that
\* key, whatever was answered for the path before.
C1_RedirectFreshness ==
    response.op = "redirect" =>
        \A i \in 1..Len(hist) :
            (/\ hist[i].protocol \in {Hls, Dash}
             /\ response.filename = RedirectPath(hist[i].name, hist[i].protocol))
            => /\ response.status = 302
               /\ response.location = EncodeConfig(ExpectedContent(hist[i]))

\* C1 witness: the same path is answered a second time, after a save, with
\* another URL than the first time
C1_Witness ==
    /\ response.op = "redirect"
    /\ response.status = 302
    /\ response.prev # NoRedirect
    /\ response.prev.filename = response.filename
    /\ response.prev.location # response.location
    /\ \E i \in 1..Len(hist) :
          response.filename = RedirectPath(hist[i].name, hist[i].protocol)

\* C2: for every key whose last accepted save has not been followed by a
\* save or delete of that key, get(name, protocol) returns a record with the
\* delays, statusCodes, timeouts, throttles, sourceUrl, protocol and
\* streamType given at save time (streamType 'live' and empty lists where
\* the request omitted them).
C2_RoundTrip ==
    \A i \in 1..Len(hist) :
        LET b == hist[i]
            c == getConfig(configs, b.name, b.protocol)
        IN  /\ c # Null
            /\ \A k \in ListFields : c[k] = (IF k \in DOMAIN b THEN b[k] ELSE <<>>)
            /\ c.sourceUrl = b.sourceUrl
            /\ c.protocol = b.protocol
            /\ c.streamType = (IF "streamType" \in DOMAIN b THEN b.streamType ELSE Live)

\* C2 witness: a record saved without streamType and lists is fetched
C2_Witness ==
    /\ response.op = "get"
    /\ response.status = 200
    /\ \E i \in 1..Len(hist) :
          /\ hist[i] = MinimalBody(response.name, response.protocol)
          /\ response.body.config.streamType = Live
          /\ response.body.config.delays = <<>>

\* C3: after an accepted save exactly one record is stored under the saved
\* (name, protocol), it holds exactly the content of that payload (nothing
\* of a replaced record survives), and it is first in list().
C3_UpsertFullReplace ==
    (response.op = "save" /\ response.status = 200) =>
        LET b == response.req
            all == listConfigs(configs)
            same == {i \in 1..Len(all) : all[i].name = b.name /\ all[i].protocol = b.protocol}
        IN  /\ Cardinality(same) = 1
            /\ Len(all) >= 1
            /\ Stringify(all[1]) = ExpectedContent(b)

\* C3 witness: a record with a description is replaced by a payload without
C3_Witness ==
    /\ response.op = "save"
    /\ response.status = 200
    /\ response.replaced # Null
    /\ Truthy(Field(response.replaced, "description"))
    /\ "description" \notin DOMAIN response.req
    /\ Len(configs) >= 2

\* position of a (name, protocol) in the history of saves, 0 if absent
HistPos(name, protocol) ==
    IF \E i \in 1..Len(hist) : SamePair(hist[i], name, protocol)
    THEN CHOOSE i \in 1..Len(hist) : SamePair(hist[i], name, protocol)
    ELSE 0

\* C4: list() returns the records most recently saved first: of two listed
\* records, the one saved later comes first.
C4_ListMostRecentFirst ==
    LET all == listConfigs(configs)
    IN  \A i, j \in 1..Len(all) :
            (/\ i < j
             /\ HistPos(all[i].name, all[i].protocol) > 0
             /\ HistPos(all[j].name, all[j].protocol) > 0)
            => HistPos(all[i].name, all[i].protocol) < HistPos(all[j].name, all[j].protocol)

\* the (name, protocol) a save or delete request names
RequestName(r) == IF r.op = "save" THEN Field(r.req, "name") ELSE r.name
RequestProtocol(r) == IF r.op = "save" THEN Field(r.req, "protocol") ELSE r.protocol

\* C5: a save or delete of one (name, protocol) leaves the record under
\* every other (name, protocol) as it was, and an accepted save leaves its
\* own record stored.
C5_KeyIndependence ==
    [][response'.op \in {"save", "delete"} =>
        /\ \A n \in Names, p \in Protocols :
              (n # RequestName(response') \/ p # RequestProtocol(response'))
              => getConfig(configs', n, p) = getConfig(configs, n, p)
        /\ (response'.op = "save" /\ response'.status = 200)
              => getConfig(configs', response'.req.name, response'.req.protocol) # Null
      ]_vars

\* C5 witness: (x, hls) has just been deleted and (x, dash) is still stored
C5_Witness ==
    /\ response.op = "delete"
    /\ response.status = 200
    /\ response.name = X
    /\ response.protocol = Hls
    /\ getConfig(configs, X, Dash) # Null
    /\ getConfig(configs, X, Hls) = Null

\* the records of two sequences are the same, content for content
SameRecords(s, t) ==
    /\ Len(s) = Len(t)
    /\ \A i \in 1..Len(s) : \E j \in 1..Len(t) : SameContent(s[i], t[j])
    /\ \A j \in 1..Len(t) : \E i \in 1..Len(s) : SameContent(s[i], t[j])

\* C6: when a save, or a delete of a stored key, has returned after a
\* successful write, the file holds exactly the records of the in-memory
\* collection, and loading the file yields exactly those records.
C6_WriteThrough ==
    (response.op \in {"save", "delete"} /\ response.status = 200 /\ response.wrote) =>
        /\ file.kind = "array"
        /\ SameRecords(file.items, MapValues(configs))
        /\ SameRecords(MapValues(loadFromFile(file)), MapValues(configs))

\* C6 witness: a save is written through with two records stored
C6_Witness ==
    /\ response.op = "save"
    /\ response.status = 200
    /\ response.wrote
    /\ Len(configs) >= 2
    /\ file.kind = "array"
    /\ Len(file.items) >= 2

MissingOrCorrupt(f) ==
    f.kind # "array" \/ \E i \in 1..Len(f.items) : f.items[i] = Null

\* C8: when the file is missing or corrupt, the store is empty after startup.
C8_CorruptStartsEmpty ==
    (response.op \in {"start", "restart"} /\ MissingOrCorrupt(file)) => configs = EmptyMap

\* the body is one the save route must reject: a required field is not
\* given, or the name does not match ^[A-Za-z0-9_-]+$
MustReject(body) ==
    \/ \E k \in RequiredFields : k \notin DOMAIN body
    \/ body.name = <<>>
    \/ \E i \in 1..Len(body.name) : body.name[i] \notin NameChars

\* C9: a save request that lacks a required field or whose name does not
\* match the name format is answered 400 and changes neither the in-memory
\* collection nor the file.
C9_RejectedSaveNoMutation ==
    [][(response'.op = "save" /\ MustReject(response'.req)) =>
            /\ response'.status = 400
            /\ configs' = configs
            /\ file' = file
      ]_vars

\* C9 witness: "bad name!" has been rejected while a record is stored
C9_Witness ==
    /\ response.op = "save"
    /\ response.status = 400
    /\ Field(response.req, "name") = BadName
    /\ Len(configs) >= 1

\* C10: a save whose protocol is neither hls nor dash is answered as a
\* validation error, and every stored record has protocol hls or dash.
C10_ProtocolTokens ==
    /\ (/\ response.op = "save"
         /\ "protocol" \in DOMAIN response.req
         /\ response.req.protocol \notin {Hls, Dash}) => response.status = 400
    /\ \A i \in 1..Len(configs) : configs[i].value.protocol \in {Hls, Dash}

\* the record stored for (name, protocol) is the entry at position i
HoldsPair(m, i, name, protocol) ==
    m[i].value.name = name /\ m[i].value.protocol = protocol

\* C11: a delete of a present (name, protocol), protocol hls or dash, is
\* answered 200, removes that record and no other, and its write leaves the
\* file with exactly the remaining records; a delete of an absent key is
\* answered 404 and changes neither the collection nor the file; a delete
\* that directly follows a successful delete of the same key is answered 404.
C11_Delete ==
    [][(response'.op = "delete" /\ response'.protocol \in {Hls, Dash}) =>
         LET name == response'.name
             protocol == response'.protocol
         IN  /\ IF \E i \in 1..Len(configs) : HoldsPair(configs, i, name, protocol)
                THEN /\ response'.status = 200
                     /\ configs' = SelectSeq(configs,
                            LAMBDA e : ~SamePair(e.value, name, protocol))
                     /\ Len(configs') = Len(configs) - 1
                     /\ response'.wrote =>
                           /\ file'.kind = "array"
                           /\ SameRecords(file'.items, MapValues(configs'))
                           /\ \A i \in 1..Len(file'.items) :
                                 ~SamePair(file'.items[i], name, protocol)
                ELSE /\ response'.status = 404
                     /\ configs' = configs
                     /\ file' = file
                     /\ failures' = failures
             /\ (/\ response.op = "delete"
                 /\ response.status = 200
                 /\ response.name = name
                 /\ response.protocol = protocol) => response'.status = 404
      ]_vars

\* C11 witness: a delete was answered 200 and written, one other record
\* remains in the collection and in the file
C11_Witness ==
    /\ response.op = "delete"
    /\ response.status = 200
    /\ response.wrote
    /\ Len(configs) = 1
    /\ ~SamePair(configs[1].value, response.name, response.protocol)
    /\ file.kind = "array"
    /\ Len(file.items) = 1

\* the names a filename may carry in front of an extension
Prefixes(filename) == {SubSeq(filename, 1, k) : k \in 0..Len(filename)}

\* some record is stored for (name, protocol)
Stored(m, name, protocol) ==
    \E i \in 1..Len(m) : HoldsPair(m, i, name, protocol)

\* C12: a redirect request for <name>.m3u8 (hls) or <name>.mpd (dash) with
\* no record stored for that (name, protocol) is answered 404 without a
\* Location and without the URL encoder having been called, whether or not a
\* record of that name is stored for the other protocol.
C12_UnknownRedirect ==
    response.op = "redirect" =>
        \A name \in Prefixes(response.filename), protocol \in {Hls, Dash} :
            (/\ response.filename = RedirectPath(name, protocol)
             /\ ~Stored(configs, name, protocol))
            => /\ response.status = 404
               /\ ~response.encoded
               /\ "location" \notin DOMAIN response

\* C12 witness: x.mpd was answered 404 while a record x/hls with a source
\* URL is stored
C12_Witness ==
    /\ response.op = "redirect"
    /\ response.filename = RedirectPath(X, Dash)
    /\ response.status = 404
    /\ ~response.encoded
    /\ ~Stored(configs, X, Dash)
    /\ Stored(configs, X, Hls)

\* the filename ends with neither .m3u8 nor .mpd
BadExtension(filename) ==
    \A name \in Prefixes(filename), protocol \in {Hls, Dash} :
        filename # RedirectPath(name, protocol)

\* C13: a redirect request whose filename ends with neither .m3u8 nor .mpd
\* is answered 400 without the handler having called the store (no lookup,
\* no encoding), whatever the store holds.
C13_BadExtension ==
    (response.op = "redirect" /\ BadExtension(response.filename)) =>
        /\ response.status = 400
        /\ ~response.lookedUp
        /\ ~response.encoded
        /\ "location" \notin DOMAIN response

\* C13 witness: x.xyz was answered 400 while records x/hls and x/dash are
\* stored
C13_Witness ==
    /\ response.op = "redirect"
    /\ response.filename = X \o XyzExt
    /\ response.status = 400
    /\ Stored(configs, X, Hls)
    /\ Stored(configs, X, Dash)

\* the record has no usable source URL: the key is absent or the text empty
NoUsableSourceUrl(config) ==
    "sourceUrl" \notin DOMAIN config \/ config.sourceUrl = <<>>

\* C14: when the record stored for the requested key has no usable source
\* URL, a redirect request is answered 500 without a Location (never 302),
\* and a fetch of the record shows no proxy URL.
C14_GenerationFailure ==
    /\ response.op = "redirect" =>
          \A i \in 1..Len(configs) :
              (/\ configs[i].value.protocol \in {Hls, Dash}
               /\ response.filename = RedirectPath(configs[i].value.name,
                                                   configs[i].value.protocol)
               /\ NoUsableSourceUrl(configs[i].value))
              => /\ response.status = 500
                 /\ "location" \notin DOMAIN response
    /\ (/\ response.op = "get"
        /\ response.status = 200
        /\ NoUsableSourceUrl(response.body.config)) => response.body.proxyUrl = Null

\* C14 witness: x.mpd was answered 500 for the stored record x/dash whose
\* source URL is the empty text
C14_Witness ==
    /\ response.op = "redirect"
    /\ response.filename = RedirectPath(X, Dash)
    /\ response.status = 500
    /\ Stored(configs, X, Dash)
    /\ getConfig(configs, X, Dash).sourceUrl = <<>>

\* C15: GET and DELETE /config/:name/:protocol with a protocol other than
\* hls or dash are answered 400 without a call of the store and without a
\* change of the collection or the file; with hls or dash and no record
\* stored for the key they are answered 404.
C15_BadProtocol ==
    [][response'.op \in {"get", "delete"} =>
         /\ response'.protocol \notin {Hls, Dash} =>
               /\ response'.status = 400
               /\ ~response'.lookedUp
               /\ configs' = configs
               /\ file' = file
         /\ (/\ response'.protocol \in {Hls, Dash}
             /\ ~Stored(configs, response'.name, response'.protocol)) =>
               response'.status = 404
      ]_vars

\* C15 witness: DELETE /config/x/smooth was answered 400 while a record
\* x/smooth is stored
C15_Witness ==
    /\ response.op = "delete"
    /\ response.protocol = Smooth
    /\ response.status = 400
    /\ Stored(configs, X, Smooth)

\* the positions of a sequence, in order, whose element satisfies Test
Positions(s, Test(_)) == SelectSeq([i \in 1..Len(s) |-> i], LAMBDA i : Test(s[i]))

\* the record the redirect answer was encoded from
RedirectedConfig ==
    CHOOSE c \in {configs[i].value : i \in 1..Len(configs)} :
        c.protocol \in {Hls, Dash} /\ response.filename = RedirectPath(c.name, c.protocol)

\* a redirect was answered with a Location
Redirected == response.op = "redirect" /\ response.status = 302

\* the text of the Location up to and including `url=<sourceUrl>`
UrlHead(config) ==
    config.instanceUrl
    \o << (IF config.protocol = Hls THEN "/api/v2/manifests/hls/proxy-master.m3u8"
           ELSE "/api/v2/manifests/dash/proxy-master.mpd"), "?", "url=" >>
    \o config.sourceUrl

\* the text of the Location after `url=<sourceUrl>`
UrlRest(location, config) == SubSeq(location, Len(UrlHead(config)) + 1, Len(location))

\* the names of the parameters in rest, in order: each stands between an
\* `&` and an `=`
ParamNames(rest) ==
    LET heads == SelectSeq([i \in 1..Len(rest) |-> i],
                     LAMBDA i : rest[i] = "&" /\ i + 2 <= Len(rest) /\ rest[i + 2] = "=")
    IN  [k \in 1..Len(heads) |-> rest[heads[k] + 1]]

\* the parameter names the record calls for: one per list that has entries,
\* in the order delay, statusCode, timeout, throttle
ExpectedParams(config) ==
    (IF config.delays # <<>> THEN <<"delay">> ELSE <<>>)
    \o (IF config.statusCodes # <<>> THEN <<"statusCode">> ELSE <<>>)
    \o (IF config.timeouts # <<>> THEN <<"timeout">> ELSE <<>>)
    \o (IF config.throttles # <<>> THEN <<"throttle">> ELSE <<>>)

\* the descriptors of a record in the order of their encoding
AllDescriptors(config) ==
    config.delays \o config.statusCodes \o config.timeouts \o config.throttles

\* the objects of a text, in order: what stands between each { and its }
Objects(text) ==
    LET opens == Positions(text, LAMBDA c : c = "{")
        closes == Positions(text, LAMBDA c : c = "}")
    IN  [k \in 1..Len(opens) |-> SubSeq(text, opens[k] + 1, closes[k] - 1)]

\* C16: the Location of a redirect is the instance URL, the endpoint path,
\* `?url=` and the source URL text unchanged, followed by one `&name=[...]`
\* parameter for each descriptor list that has entries, in the order delay,
\* statusCode, timeout, throttle, each array holding as many objects as the
\* list has descriptors; no `[]` appears.
C16_QueryStructure ==
    Redirected =>
        LET config == RedirectedConfig
            location == response.location
            rest == UrlRest(location, config)
        IN  /\ Len(location) >= Len(UrlHead(config))
            /\ SubSeq(location, 1, Len(UrlHead(config))) = UrlHead(config)
            /\ ParamNames(rest) = ExpectedParams(config)
            /\ Len(Positions(rest, LAMBDA c : c = "&")) = Len(ExpectedParams(config))
            /\ Len(Positions(rest, LAMBDA c : c = "[")) = Len(ExpectedParams(config))
            /\ Len(Objects(rest)) = Len(AllDescriptors(config))
            /\ \A i \in 1..Len(rest) - 1 : ~(rest[i] = "[" /\ rest[i + 1] = "]")
            /\ (rest # <<>>) => (rest[1] = "&" /\ rest[Len(rest)] = "]")

\* C16 witness: a record with delays and timeouts only and a source URL with
\* ? = & in it was redirected to ...&delay=[...]&timeout=[...]
C16_Witness ==
    /\ Redirected
    /\ RedirectedConfig.sourceUrl = SrcQuery
    /\ RedirectedConfig.statusCodes = <<>>
    /\ RedirectedConfig.throttles = <<>>
    /\ ParamNames(UrlRest(response.location, RedirectedConfig)) = <<"delay", "timeout">>

\* the keys of an encoded object, in order: the token in front of each colon
ObjectKeys(obj) ==
    LET colons == Positions(obj, LAMBDA c : c = ":")
    IN  [k \in 1..Len(colons) |-> obj[colons[k] - 1]]

\* the value text that follows the key in an encoded object
ObjectValue(obj, key) ==
    LET at == CHOOSE j \in 1..Len(obj) - 2 : obj[j] = key /\ obj[j + 1] = ":"
    IN  obj[at + 2]

\* the descriptor targets all segments: i is the string '*'
IsWildcard(d) == "i" \in DOMAIN d /\ d.i.t = "string" /\ d.i.v = <<"*">>

\* the descriptor is the Delay {i:'*', ms:1000}
IsWildcardDelay1000(d) ==
    DOMAIN d = {"i", "ms"} /\ IsWildcard(d) /\ d.ms.t = "number" /\ d.ms.v = 1000

\* the objects of the Location of the last redirect, one per descriptor
RedirectedObjects == Objects(UrlRest(response.location, RedirectedConfig))

\* C17: every descriptor with i = '*' is encoded with the three tokens i : *
\* at the head of its object, followed by a comma or the closing brace, and
\* the Location holds no quote character; a Delay {i:'*', ms:1000} is
\* encoded as {i:*,ms:1000}.
C17_WildcardLiteral ==
    Redirected =>
        LET all == AllDescriptors(RedirectedConfig)
            objs == RedirectedObjects
        IN  /\ Len(objs) = Len(all)
            /\ \A k \in 1..Len(all) :
                  IsWildcard(all[k]) =>
                      /\ Len(objs[k]) >= 3
                      /\ SubSeq(objs[k], 1, 3) = <<"i", ":", "*">>
                      /\ Len(objs[k]) > 3 => objs[k][4] = ","
            /\ \A j \in 1..Len(response.location) : response.location[j] # "\""
            /\ \A k \in 1..Len(all) :
                  IsWildcardDelay1000(all[k]) =>
                      objs[k] = <<"i", ":", "*", ",", "ms", ":", "1000">>

\* C17 witness: a record whose first delay is {i:'*', ms:1000} was redirected
\* to a Location whose first object is {i:*,ms:1000}
C17_Witness ==
    /\ Redirected
    /\ RedirectedConfig.delays # <<>>
    /\ IsWildcardDelay1000(RedirectedConfig.delays[1])
    /\ RedirectedObjects[1] = <<"i", ":", "*", ",", "ms", ":", "1000">>

Relevant(config) ==
    [k \in {"instanceUrl", "protocol", "sourceUrl"} \cup ListFields |-> config[k]]

\* the proxy URL of a record taken on its own
OwnUrl(config) ==
    IF NoUsableSourceUrl(config) THEN Null ELSE EncodeConfig(Relevant(config))

\* C19: every proxy URL the program gives out (the Location of a redirect,
\* the proxyUrl of a fetched or listed record) is the encoding of that
\* record's instanceUrl, protocol, sourceUrl and four lists alone, whatever
\* else is stored, wherever the record stands in the collection and whatever
\* was requested before; and a redirect request repeated directly is
\* answered with the same status and Location.
C19_EncoderDeterminism ==
    [][/\ (response'.op = "redirect" /\ response'.status = 302) =>
              \E i \in 1..Len(configs') :
                  /\ configs'[i].value.protocol \in {Hls, Dash}
                  /\ response'.filename = RedirectPath(configs'[i].value.name,
                                                       configs'[i].value.protocol)
                  /\ response'.location = OwnUrl(configs'[i].value)
       /\ (response'.op = "get" /\ response'.status = 200) =>
              response'.body.proxyUrl = OwnUrl(response'.body.config)
       /\ response'.op = "list" =>
              \A i \in 1..Len(response'.configs) :
                  response'.configs[i].proxyUrl = OwnUrl(response'.configs[i].config)
       /\ (/\ response.op = "redirect"
           /\ response'.op = "redirect"
           /\ response'.filename = response.filename) =>
              /\ response'.status = response.status
              /\ response.status = 302 => response'.location = response.location
      ]_vars

\* C19 witness: x.m3u8 was redirected twice in a row to the same Location
\* while another record stands in front of x/hls in the collection
C19_Witness ==
    /\ Redirected
    /\ response.filename = RedirectPath(X, Hls)
    /\ response.prev # NoRedirect
    /\ response.prev.filename = response.filename
    /\ response.prev.location = response.location
    /\ Len(configs) >= 2
    /\ ~SamePair(configs[1].value, X, Hls)

TargetingFields == {"i", "sq", "rsq", "br", "l"}

\* the descriptor has two or more targeting fields set
TwoTargets(d) == Cardinality(DOMAIN d \cap TargetingFields) >= 2

\* some descriptor of some list of the record or body has two targeting fields
HasTwoTargets(obj) ==
    \E k \in ListFields \cap DOMAIN obj : \E j \in 1..Len(obj[k]) : TwoTargets(obj[k][j])

\* C20: no stored record holds a descriptor with more than one of the
\* targeting fields i, sq, rsq, br, l set, and a save request with such a
\* descriptor is answered 400.
C20_TargetingExclusive ==
    /\ \A i \in 1..Len(configs) : ~HasTwoTargets(configs[i].value)
    /\ (response.op = "save" /\ HasTwoTargets(response.req)) => response.status = 400

\* some descriptor of the body has rsq set
HasRelative(body) ==
    \E k \in ListFields : \E j \in 1..Len(body[k]) : "rsq" \in DOMAIN body[k][j]

\* C21: a configuration the editor posts holds a descriptor with rsq set
\* only if the instance selected in the form, whose URL the configuration is
\* posted with, has statefulMode = true.
C21_RelativeOnlyStateful ==
    (response.op = "post" /\ response.status = "sent" /\ HasRelative(response.req)) =>
        response.instance.statefulMode

\* the targeting fields a descriptor has set
SetTargets(d) == {k \in {"i", "sq", "rsq", "br", "l"} : IsSet(d, k)}

\* C30: in the editor every descriptor of the form has at most one of i, sq,
\* rsq, br, l set, whatever modes were chosen and values typed; right after a
\* mode is chosen exactly the field of that mode is set (none for 'none')
\* and the descriptor's own field (ms, code, rate) is as it was before.
C30_EditorExclusive ==
    /\ \A kind \in Kinds : \A j \in 1..Len(ui.config[kind]) :
          Cardinality(SetTargets(ui.config[kind][j])) <= 1
    /\ ui.lastMode # NoMode =>
          LET d == ui.config[ui.lastMode.kind][ui.lastMode.index]
              b == ui.lastMode.own
              m == ui.lastMode.mode
          IN  /\ SetTargets(d) = (CASE m = "none" -> {}
                                    [] m = "all" -> {"i"}
                                    [] OTHER -> {ModeField(m)})
              /\ \A k \in OwnFields :
                    /\ k \in DOMAIN d <=> k \in DOMAIN b
                    /\ k \in DOMAIN b => d[k] = b[k]

\* a delay was switched to sequence targeting
C30_Witness ==
    /\ ui.lastMode # NoMode
    /\ ui.lastMode.mode = "sequence"
    /\ "ms" \in DOMAIN ui.lastMode.own
    /\ getTargetingMode(ui.config[ui.lastMode.kind][ui.lastMode.index]) = "sequence"

\* the records of the file, none where it holds no array
FileItems == IF file.kind = "array" THEN file.items ELSE <<>>

\* the file holds a record of the key name:protocol
OnFile(name, protocol) ==
    \E i \in 1..Len(FileItems) :
        FileItems[i] # Null /\ FileItems[i].name = name /\ FileItems[i].protocol = protocol

\* C22: every write of a save that succeeds replaces the whole file by the
\* collection of the process that wrote, whatever the other process has
\* written since that process loaded the file: the last writer wins.
C22_LastWriterWins ==
    /\ (response.op = "save" /\ response.status = 200 /\ response.wrote) =>
           file = FileText(configs)
    /\ (response.op = "peer save" /\ response.wrote) =>
           file = FileText(peer.configs)

\* both processes have saved, no write has failed, and the file lacks the
\* record x/hls the first process saved after the second had started
C22_Witness ==
    /\ failures = 0
    /\ peer.running
    /\ response.op = "peer save"
    /\ hasConfig(configs, X, Hls) /\ ~hasConfig(peer.configs, X, Hls)
    /\ hasConfig(peer.configs, X, Dash) /\ ~hasConfig(configs, X, Dash)
    /\ OnFile(X, Dash) /\ ~OnFile(X, Hls)

\* <scheme>://<hostname>, with :<port> where the port is not the default of
\* the scheme, from the environment as the deployment documents it
ExpectedBase ==
    LET scheme == IF "PUBLIC_PROTOCOL" \in DOMAIN env THEN env["PUBLIC_PROTOCOL"] ELSE "http"
        hostname == IF "PUBLIC_HOSTNAME" \in DOMAIN env THEN env["PUBLIC_HOSTNAME"]
                    ELSE "localhost"
        port == IF "PUBLIC_PORT" \in DOMAIN env THEN env["PUBLIC_PORT"]
                ELSE IF "PORT" \in DOMAIN env THEN env["PORT"] ELSE "3001"
        default == IF scheme = "http" THEN "80" ELSE "443"
    IN  <<scheme, "://", hostname>> \o (IF port # default THEN <<":", port>> ELSE <<>>)

\* the records a get or a list has reported, each with its URLs
Reported ==
    IF response.op = "list" THEN {response.configs[i] : i \in 1..Len(response.configs)}
    ELSE IF response.op = "get" /\ response.status = 200 THEN {response.body}
    ELSE {}

\* C23: the redirectUrl reported for an hls or dash record is the base URL
\* (scheme://hostname, with :port exactly when the port is not 80 for http or
\* 443 for https) followed by /redirect/<name>.m3u8 for hls and
\* /redirect/<name>.mpd for dash.
C23_BaseUrlPortRule ==
    \A r \in Reported :
        /\ r.config.protocol = Hls =>
              r.redirectUrl = ExpectedBase \o <<"/redirect/">> \o r.config.name \o <<".", "m3u8">>
        /\ r.config.protocol = Dash =>
              r.redirectUrl = ExpectedBase \o <<"/redirect/">> \o r.config.name \o <<".", "mpd">>

\* https on port 443: a dash record is reported without the port
C23_Witness ==
    /\ "PUBLIC_PROTOCOL" \in DOMAIN env /\ env["PUBLIC_PROTOCOL"] = "https"
    /\ "PUBLIC_PORT" \in DOMAIN env /\ env["PUBLIC_PORT"] = "443"
    /\ "PORT" \in DOMAIN env /\ env["PORT"] = "3000"
    /\ \E r \in Reported :
          r.redirectUrl = <<"https", "://", "my-app.example.com", "/redirect/", "x", ".", "mpd">>

\* the requests of the instance routes that called the OSC client
CalledClient ==
    /\ response.op \in {"list instances", "create instance", "delete instance",
                        "describe instance"}
    /\ response.status # 400

\* C24: whenever a run of the osc command line failed while an instance
\* route was served, the answer is an error (500) whose message carries the
\* message of the command line; it is not a success, a 404 or a list with
\* the instance left out.
C24_FailuresPropagate ==
    (CalledClient /\ response.cliFailed) =>
        /\ response.status = 500
        /\ \E i \in 1..Len(response.message) : <<response.message[i]>> = CliFailure

\* C25: the status route reports configured = true exactly when a token has
\* been set and not cleared since, and instance commands are run exactly
\* in those states.
C25_TokenStatus ==
    /\ response.op = "token status" => response.configured = osc.tokenSet
    /\ CalledClient => response.ran = osc.tokenSet

\* C26: a GET or DELETE of /api/config/:name/:protocol that names the name
\* and protocol of a record the store holds, and so list returns, is
\* answered 200.
C26_ListedAddressable ==
    [][\A i \in 1..Len(configs) :
          (/\ response'.op \in {"get", "delete"}
           /\ response'.name = configs[i].value.name
           /\ response'.protocol = configs[i].value.protocol) => response'.status = 200]_vars

\* the filename of a redirect URL: the characters after /redirect/
UrlFilename(url) ==
    LET k == CHOOSE i \in 1..Len(url) : url[i] = "/redirect/"
    IN  SubSeq(url, k + 1, Len(url) - 1)
        \o (IF url[Len(url)] = "m3u8" THEN <<"m", "3", "u", "8">> ELSE <<"m", "p", "d">>)

\* C28: the filename of the redirectUrl reported for a record parses back to
\* the name and protocol of that record.
C28_RedirectRoundTrip ==
    \A r \in Reported :
        LET parsed == ParseFilename(UrlFilename(r.redirectUrl))
        IN  /\ parsed # Null
            /\ parsed.name = r.config.name
            /\ parsed.protocol = r.config.protocol

\* r is the report of the record (name, protocol), with a proxy URL
ReportsUrl(r, name, protocol) ==
    r.config.name = name /\ r.config.protocol = protocol /\ r.proxyUrl # Null

\* C27: a redirect request for the filename of a record (<name>.m3u8 for
\* hls, <name>.mpd for dash) made directly after a get or list, with the
\* store as they saw it, is answered 302 with the proxyUrl they reported for
\* that record as its Location; and a get or list made directly after such a
\* redirect reports that Location as the record's proxyUrl.
C27_ProxyUrlIsLocation ==
    [][\A name \in Names, protocol \in {Hls, Dash} :
          /\ (response'.op = "redirect" /\ response'.filename = RedirectPath(name, protocol)) =>
                \A r \in Reported :
                    ReportsUrl(r, name, protocol) =>
                        response'.status = 302 /\ response'.location = r.proxyUrl
          /\ (Redirected /\ response.filename = RedirectPath(name, protocol)) =>
                \A r \in Reported' :
                    ReportsUrl(r, name, protocol) => r.proxyUrl = response.location]_vars

\* x.mpd was redirected while x/hls and x/dash, with different proxy URLs,
\* were both stored
C27_Witness ==
    /\ Redirected
    /\ response.filename = RedirectPath(X, Dash)
    /\ Stored(configs, X, Hls)
    /\ Stored(configs, X, Dash)
    /\ response.location = WithUrls(configs, getConfig(configs, X, Dash)).proxyUrl
    /\ response.location # WithUrls(configs, getConfig(configs, X, Hls)).proxyUrl

\* the keys the claim allows in an object of the parameter, in their order
AllowedKeys(param) ==
    <<"i", "sq", "rsq", "br">>
    \o (CASE param = "delay" -> <<"l", "ms">>
          [] param = "statusCode" -> <<"code">>
          [] param = "timeout" -> <<>>
          [] param = "throttle" -> <<"rate">>)

\* the parameter the k-th descriptor of a record is encoded in
ParamOf(config, k) ==
    IF k <= Len(config.delays) THEN "delay"
    ELSE IF k <= Len(config.delays) + Len(config.statusCodes) THEN "statusCode"
    ELSE IF k <= Len(config.delays) + Len(config.statusCodes) + Len(config.timeouts)
    THEN "timeout"
    ELSE "throttle"

\* C29: in the Location of a redirect the keys of every encoded descriptor
\* are those of i, sq, rsq, br, l (delay only) and the kind's own field (ms,
\* code, rate) that the stored descriptor has, in that order; no other field
\* of the stored descriptor is emitted, so l stands in no statusCode, timeout
\* or throttle object.
C29_KeyOrderWhitelist ==
    Redirected =>
        LET all == AllDescriptors(RedirectedConfig)
            objs == RedirectedObjects
        IN  /\ Len(objs) = Len(all)
            /\ \A k \in 1..Len(all) :
                  ObjectKeys(objs[k]) =
                      SelectSeq(AllowedKeys(ParamOf(RedirectedConfig, k)),
                                LAMBDA f : f \in DOMAIN all[k])

\* a record whose descriptors hold all nine fields was redirected
C29_Witness ==
    /\ Redirected
    /\ \A k \in 1..4 : "extra" \in DOMAIN AllDescriptors(RedirectedConfig)[k]
    /\ RedirectedObjects =
          << <<"i", ":", "1", ",", "sq", ":", "2", ",", "rsq", ":", "3", ",", "br", ":", "4", ",",
               "l", ":", "5", ",", "ms", ":", "6">>,
             <<"i", ":", "1", ",", "sq", ":", "2", ",", "rsq", ":", "3", ",", "br", ":", "4", ",",
               "code", ":", "7">>,
             <<"i", ":", "1", ",", "sq", ":", "2", ",", "rsq", ":", "3", ",", "br", ":", "4">>,
             <<"i", ":", "1", ",", "sq", ":", "2", ",", "rsq", ":", "3", ",", "br", ":", "4", ",",
               "rate", ":", "8">> >>

====
